---------------------------- MODULE Spec2Model ----------------------------
(***************************************************************************)
(* A model of texttyoBB: the reverse proxy of src/proxy_server.py (origin  *)
(* selection, request handling, link rewriting) and the scraper of         *)
(* src/scraper.py (URL pattern learning, the file-backed pattern registry, *)
(* the scraping session of main).                                          *)
(*                                                                         *)
(* Python strings are sequences of one-character strings, so that          *)
(* startswith, split, lstrip, replace, urlparse and urljoin are computed   *)
(* on the characters as the code computes them.  None is the one-element   *)
(* sequence <<"None">>, which no string of characters equals.              *)
(***************************************************************************)
EXTENDS Integers, Sequences, FiniteSets, TLC

VARIABLES
    \* ---- proxy_server.py: the module-level ProxyServer and its requests
    target_domain,   \* ProxyServer.target_domain
    scheme,          \* ProxyServer.scheme
    base_url,        \* ProxyServer.base_url
    reqs,            \* the GET requests: where each handler is, what it saw
    fetches,         \* the requests whose handler called session.get
    lastTarget,      \* the url of the last /set-target that returned success
    \* ---- modify_content applied to a document
    doc,             \* the parsed document (soup) of the current pass
    docIn,           \* the document before the first pass
    docOut,          \* the document after each pass, in order
    \* ---- scraper.py: WebScraper instances and url_patterns.json
    file,            \* url_patterns.json: None (absent) or a mapping
    inst,            \* the WebScraper instances sharing the file
    clock,           \* datetime.now(), a logical clock
    lastLearn,       \* the last update_url_pattern call and what it found
    fileInit,        \* url_patterns.json before the first instance
    \* ---- scraper.py: main(urls)
    urls,            \* the argument of main
    mainpc,          \* where main is
    scrapers,        \* main's list `scrapers`: each one's driver
    tasks,           \* main's list `tasks`: each save_page coroutine
    disk,            \* the files written under OUTPUT_DIR
    results          \* what main returned

proxyVars == <<target_domain, scheme, base_url, reqs, fetches, lastTarget>>
docVars   == <<doc, docIn, docOut>>
regVars   == <<file, inst, clock, lastLearn, fileInit>>
mainVars  == <<urls, mainpc, scrapers, tasks, disk, results>>
vars      == <<proxyVars, docVars, regVars, mainVars>>

---------------------------------------------------------------------------
(* Python str operations.                                                  *)

None == <<"None">>

\* `if not x`: None and the empty string are falsy.
Truthy(x) == x # None /\ x # <<>>

\* str.startswith
StartsWith(s, p) == Len(s) >= Len(p) /\ SubSeq(s, 1, Len(p)) = p

\* s[i:] with a 1-based i
From(s, i) == SubSeq(s, i, Len(s))

\* str.find for one character out of cs, from position `from`; 0 is -1
FindAny(s, cs, from) ==
    IF \E i \in from..Len(s) : s[i] \in cs
    THEN CHOOSE i \in from..Len(s) :
            s[i] \in cs /\ \A j \in from..(i - 1) : s[j] \notin cs
    ELSE 0

Find(s, c) == FindAny(s, {c}, 1)

\* str.lstrip(c)
RECURSIVE LStrip(_, _)
LStrip(s, c) == IF s # <<>> /\ Head(s) = c THEN LStrip(Tail(s), c) ELSE s

\* str.split(c): always at least one part
RECURSIVE Split(_, _)
Split(s, c) ==
    LET i == Find(s, c)
    IN  IF i = 0 THEN <<s>>
        ELSE <<SubSeq(s, 1, i - 1)>> \o Split(From(s, i + 1), c)

\* c.join(parts)
RECURSIVE Join(_, _)
Join(parts, c) ==
    IF parts = <<>> THEN <<>>
    ELSE IF Len(parts) = 1 THEN parts[1]
    ELSE parts[1] \o <<c>> \o Join(Tail(parts), c)

\* str.replace(old, new): every non-overlapping occurrence, left to right
RECURSIVE Replace(_, _, _)
Replace(s, old, new) ==
    IF s = <<>> \/ old = <<>> THEN s
    ELSE IF StartsWith(s, old) THEN new \o Replace(From(s, Len(old) + 1), old, new)
    ELSE <<Head(s)>> \o Replace(Tail(s), old, new)

Digits == {"0", "1", "2", "3", "4", "5", "6", "7", "8", "9"}
Letters == {"a", "b", "c", "d", "e", "f", "g", "h", "i", "j", "k", "l", "m",
            "n", "o", "p", "q", "r", "s", "t", "u", "v", "w", "x", "y", "z"}
\* urllib.parse.scheme_chars
SchemeChars == Letters \cup Digits \cup {"+", "-", "."}

---------------------------------------------------------------------------
(* urllib.parse, as the two files use it.  The strings of the model hold   *)
(* no upper-case letter and no white space, so lower() and the stripping   *)
(* of control characters have nothing to act on.                           *)

\* urllib.parse.uses_params, cut to the schemes in use
UsesParams == {<<>>, <<"h","t","t","p">>, <<"h","t","t","p","s">>}

\* url.rfind('/'), 0 for none
LastSlash(s) ==
    IF \E i \in 1..Len(s) : s[i] = "/"
    THEN CHOOSE i \in 1..Len(s) :
            s[i] = "/" /\ \A j \in (i + 1)..Len(s) : s[j] # "/"
    ELSE 0

\* _splitparams: the place of the ";" that starts the params, the first
\* one of the last segment; 0 when urlparse splits nothing off
ParamsAt(sch, path) ==
    IF sch \in UsesParams
    THEN FindAny(path, {";"}, IF LastSlash(path) = 0 THEN 1 ELSE LastSlash(path))
    ELSE 0

\* urlparse, last step: the params are split off the path of urlsplit
SplitParams(sch, net, path, query, frag, i) ==
    [scheme |-> sch, netloc |-> net,
     path |-> IF i = 0 THEN path ELSE SubSeq(path, 1, i - 1),
     params |-> IF i = 0 THEN <<>> ELSE From(path, i + 1),
     query |-> query, fragment |-> frag]

\* The parts of urlsplit, as urlparse gives them
Parsed(sch, net, path, query, frag) ==
    SplitParams(sch, net, path, query, frag, ParamsAt(sch, path))

\* urlsplit, last step: the query is what follows the first "?"
SplitQuery(sch, net, rest, frag, q) ==
    Parsed(sch, net,
           IF q = 0 THEN rest ELSE SubSeq(rest, 1, q - 1),
           IF q = 0 THEN <<>> ELSE From(rest, q + 1),
           frag)

\* urlsplit: the fragment is what follows the first "#"
SplitFragment(sch, net, rest, h) ==
    IF h = 0 THEN SplitQuery(sch, net, rest, <<>>, Find(rest, "?"))
    ELSE SplitQuery(sch, net, SubSeq(rest, 1, h - 1), From(rest, h + 1),
                    Find(SubSeq(rest, 1, h - 1), "?"))

\* _splitnetloc(url, 2): the netloc runs to the first of "/", "?", "#"
SplitNetloc(sch, rest, d) ==
    IF d = 0 THEN SplitFragment(sch, From(rest, 3), <<>>, 0)
    ELSE SplitFragment(sch, SubSeq(rest, 3, d - 1), From(rest, d),
                       Find(From(rest, d), "#"))

\* urlsplit after the scheme: a netloc follows "//"
SplitAfterScheme(sch, rest) ==
    IF StartsWith(rest, <<"/", "/">>)
    THEN SplitNetloc(sch, rest, FindAny(rest, {"/", "?", "#"}, 3))
    ELSE SplitFragment(sch, <<>>, rest, Find(rest, "#"))

\* urlsplit: url[:i] is a scheme when it starts with a letter and holds
\* scheme characters only (i: the place of the first ":", 0 for none)
SplitScheme(url, i) ==
    IF i > 1 /\ url[1] \in Letters /\ \A j \in 1..(i - 1) : url[j] \in SchemeChars
    THEN SplitAfterScheme(SubSeq(url, 1, i - 1), From(url, i + 1))
    ELSE SplitAfterScheme(<<>>, url)

\* urlparse(url): scheme, netloc, path, params, query, fragment
ParseUrl(url) == SplitScheme(url, Find(url, ":"))

\* urllib.parse.uses_relative and uses_netloc, cut to the schemes in use
UsesRelative == {<<>>, <<"h","t","t","p">>, <<"h","t","t","p","s">>}
UsesNetloc   == UsesRelative

\* urlunsplit, first step: "//" + netloc before the path
UnparseNetloc(p) ==
    IF p.netloc # <<>>
       \/ (p.scheme # <<>> /\ p.scheme \in UsesNetloc
           /\ ~StartsWith(p.path, <<"/", "/">>))
    THEN <<"/", "/">> \o p.netloc
         \o (IF p.path # <<>> /\ Head(p.path) # "/" THEN <<"/">> ELSE <<>>)
         \o p.path
    ELSE p.path

\* urlunsplit
UnsplitUrl(p) ==
    (IF p.scheme # <<>> THEN p.scheme \o <<":">> ELSE <<>>)
    \o UnparseNetloc(p)
    \o (IF p.query # <<>> THEN <<"?">> \o p.query ELSE <<>>)
    \o (IF p.fragment # <<>> THEN <<"#">> \o p.fragment ELSE <<>>)

\* urlunparse: the params go back behind the path
UnparseUrl(p) ==
    UnsplitUrl([p EXCEPT !.path = IF p.params # <<>>
                                  THEN p.path \o <<";">> \o p.params ELSE @])

\* the dot-segment loop of urljoin
RECURSIVE ResolveSegments(_, _)
ResolveSegments(segs, acc) ==
    IF segs = <<>> THEN acc
    ELSE IF Head(segs) = <<".", ".">>
    THEN ResolveSegments(Tail(segs),
             IF acc = <<>> THEN acc ELSE SubSeq(acc, 1, Len(acc) - 1))
    ELSE IF Head(segs) = <<".">> THEN ResolveSegments(Tail(segs), acc)
    ELSE ResolveSegments(Tail(segs), Append(acc, Head(segs)))

\* segments[1:-1] = filter(None, segments[1:-1])
FilterInner(segs) ==
    IF Len(segs) <= 2 THEN segs
    ELSE <<segs[1]>>
         \o SelectSeq(SubSeq(segs, 2, Len(segs) - 1), LAMBDA x : x # <<>>)
         \o <<segs[Len(segs)]>>

\* base_parts: the base path's segments without a last one that is no
\* directory
BaseParts(parts) ==
    IF parts[Len(parts)] # <<>> THEN SubSeq(parts, 1, Len(parts) - 1) ELSE parts

\* '/'.join(resolved_path) or '/', with the trailing '' after a last "." or
\* ".." segment
JoinResolved(segs, resolved) ==
    IF Join(IF segs[Len(segs)] \in {<<".">>, <<".", ".">>}
            THEN Append(resolved, <<>>) ELSE resolved, "/") = <<>>
    THEN <<"/">>
    ELSE Join(IF segs[Len(segs)] \in {<<".">>, <<".", ".">>}
              THEN Append(resolved, <<>>) ELSE resolved, "/")

ResolvePath(segs) == JoinResolved(segs, ResolveSegments(segs, <<>>))

\* urljoin: the path of url resolved against the path of base
JoinPath(bpath, path) ==
    IF StartsWith(path, <<"/">>) THEN ResolvePath(Split(path, "/"))
    ELSE ResolvePath(FilterInner(BaseParts(Split(bpath, "/")) \o Split(path, "/")))

\* urljoin, from `if scheme in uses_netloc` on: b is the parsed base, u the
\* parsed url with the base's scheme for default
JoinParsed(b, u) ==
    IF u.scheme \in UsesNetloc /\ u.netloc # <<>> THEN UnparseUrl(u)
    ELSE IF u.path = <<>> /\ u.params = <<>>
    THEN UnparseUrl([u EXCEPT
             !.netloc = IF u.scheme \in UsesNetloc THEN b.netloc ELSE @,
             !.path = b.path,
             !.params = b.params,
             !.query = IF @ = <<>> THEN b.query ELSE @])
    ELSE UnparseUrl([u EXCEPT
             !.netloc = IF u.scheme \in UsesNetloc THEN b.netloc ELSE @,
             !.path = JoinPath(b.path, @)])

\* urlparse(url, bscheme): the scheme of the base when the url has none
WithDefaultScheme(u, bscheme) ==
    IF u.scheme = <<>> THEN [u EXCEPT !.scheme = bscheme] ELSE u

JoinSchemes(b, u, url) ==
    IF u.scheme # b.scheme \/ u.scheme \notin UsesRelative THEN url
    ELSE JoinParsed(b, u)

JoinWithBase(b, u0, url) == JoinSchemes(b, WithDefaultScheme(u0, b.scheme), url)

\* urljoin(base, url)
UrlJoin(base, url) ==
    IF base = <<>> THEN url
    ELSE IF url = <<>> THEN base
    ELSE JoinWithBase(ParseUrl(base), ParseUrl(url), url)

---------------------------------------------------------------------------
(* Strings of the model.                                                   *)

Http      == <<"h","t","t","p">>
Https     == <<"h","t","t","p","s">>
HostA     == <<"a",".","i","o">>
HostB     == <<"b",".","i","o">>
SchemeSep == <<":","/","/">>
DataPfx   == <<"d","a","t","a",":">>
JsPfx     == <<"j","a","v","a","s","c","r","i","p","t",":">>
UrlOpen   == <<"u","r","l","(">>
Quotes    == {"'", "\""}

---------------------------------------------------------------------------
(* proxy_server.py: ProxyServer                                            *)

\* ProxyServer.set_target: the three fields it assigns, from urlparse(url)
set_target_fields(url) ==
    LET parsed == ParseUrl(url)
    IN  [target_domain |-> parsed.netloc,
         scheme        |-> parsed.scheme,
         base_url      |-> parsed.scheme \o SchemeSep \o parsed.netloc]

\* A test whose last line lost its `not`: any url with a host is taken for
\* the target's (C4 must not hold with it)
same_domain_or_any_host(url) ==
    IF StartsWith(url, <<"/">>) THEN TRUE
    ELSE ParseUrl(url).netloc = target_domain \/ ParseUrl(url).netloc # <<>>

\* is_same_domain, lines 56-59, on the url with the scheme put before "//"
same_domain_of(url) ==
    IF StartsWith(url, <<"/">>) THEN TRUE
    ELSE ParseUrl(url).netloc = target_domain \/ ParseUrl(url).netloc = <<>>

\* ProxyServer.is_same_domain, reading self.scheme and self.target_domain
is_same_domain(url) ==
    IF ~Truthy(url) THEN FALSE
    ELSE IF StartsWith(url, <<"/","/">>)
    THEN same_domain_of(scheme \o <<":">> \o url)
    ELSE same_domain_of(url)

\* modify_content, lines 83-88: the reference made absolute
absolute_url(url) ==
    IF StartsWith(url, <<"/","/">>) THEN scheme \o <<":">> \o url
    ELSE IF StartsWith(url, <<"/">>) THEN base_url \o url
    ELSE UrlJoin(base_url, url)

\* A proxy path that forgets the query (C3 must not hold with it)
path_without_query(parsed) == <<"/">> \o LStrip(parsed.path, "/")

\* modify_content, lines 92-95: "/" + the path with the query, stripped
path_with_query(parsed) ==
    <<"/">> \o LStrip(IF parsed.query # <<>>
                      THEN parsed.path \o <<"?">> \o parsed.query
                      ELSE parsed.path, "/")

\* modify_content, lines 91-95: the path the proxy serves the reference at
proxy_path(url) == path_with_query(ParseUrl(url))

\* modify_content, lines 90-95: the value when the absolute url is url
rewrite_resolved(value, url) ==
    IF is_same_domain(url) THEN proxy_path(url) ELSE value

\* modify_content, lines 74-95: what one href/src/action value becomes
rewrite_attr(value) ==
    IF ~Truthy(value) THEN value
    ELSE IF StartsWith(value, DataPfx) THEN value
    ELSE IF StartsWith(value, JsPfx) THEN value
    ELSE rewrite_resolved(value, absolute_url(value))

\* The lazy group of the regex ends before position j of s: ")" or a quote
\* and ")" follow
GroupEnds(s, j) ==
    \/ s[j] = ")"
    \/ (s[j] \in Quotes /\ j < Len(s) /\ s[j + 1] = ")")

\* The first position from `from` on where the group can end; 0 for none
GroupEnd(s, from) ==
    IF \E j \in from..Len(s) : GroupEnds(s, j)
    THEN CHOOSE j \in from..Len(s) :
            GroupEnds(s, j) /\ \A k \in from..(j - 1) : ~GroupEnds(s, k)
    ELSE 0

\* re.findall(r'url\([\'"]?(.*?)[\'"]?\)', style): the captured groups.
\* style starts with "url(" here; the group starts at `start` and ends
\* before j (0: no match at this place).
RECURSIVE find_urls(_)
match_url(style, start, j) ==
    IF j = 0 THEN find_urls(Tail(style))
    ELSE <<SubSeq(style, start, j - 1)>>
         \o find_urls(From(style, IF style[j] = ")" THEN j + 1 ELSE j + 2))

\* After "url(" the optional quote is taken when one is there; with no match
\* that way the regex backtracks and leaves the quote to the group.
find_urls(style) ==
    IF style = <<>> THEN <<>>
    ELSE IF ~StartsWith(style, UrlOpen) THEN find_urls(Tail(style))
    ELSE IF Len(style) >= 5 /\ style[5] \in Quotes /\ GroupEnd(style, 6) # 0
    THEN match_url(style, 6, GroupEnd(style, 6))
    ELSE match_url(style, 5, GroupEnd(style, 5))

\* A loop that prefixes every found url, root-relative or not (C5 must not
\* hold with it)
RECURSIVE replace_every_url(_, _)
replace_every_url(style, found) ==
    IF found = <<>> THEN style
    ELSE replace_every_url(Replace(style, UrlOpen \o Head(found) \o <<")">>,
                                   UrlOpen \o base_url \o Head(found) \o <<")">>),
                           Tail(found))

\* modify_content, lines 101-104 and 110-113: the loop over the found urls
RECURSIVE replace_urls(_, _)
replace_urls(style, found) ==
    IF found = <<>> THEN style
    ELSE IF StartsWith(Head(found), <<"/">>)
    THEN replace_urls(Replace(style, UrlOpen \o Head(found) \o <<")">>,
                              UrlOpen \o base_url \o Head(found) \o <<")">>),
                      Tail(found))
    ELSE replace_urls(style, Tail(found))

rewrite_style(style) == replace_urls(style, find_urls(style))

\* The tags modify_content scans for href/src/action
ScannedTags == {"a", "link", "script", "img", "form", "iframe"}

\* An element of the tree is a record of its tag, its href/src/action/style
\* attributes (None: absent) and its string (the text of a <style> element;
\* None: none).

\* modify_content, lines 72-95: the link attributes of a scanned element
modify_links(e) ==
    IF e.tag \in ScannedTags
    THEN [e EXCEPT !.href = rewrite_attr(@), !.src = rewrite_attr(@),
                   !.action = rewrite_attr(@)]
    ELSE e

\* modify_content, lines 98-104: the inline style of any element
modify_inline_style(e) ==
    IF e.style # None THEN [e EXCEPT !.style = rewrite_style(@)] ELSE e

\* modify_content, lines 107-113: the text of a <style> element
modify_style_tag(e) ==
    IF e.tag = "style" /\ Truthy(e.string)
    THEN [e EXCEPT !.string = rewrite_style(@)] ELSE e

\* modify_content on one element of the tree
modify_element(e) == modify_style_tag(modify_inline_style(modify_links(e)))

\* The place of the first <base> element; 0 for none
first_base(soup) ==
    IF \E i \in 1..Len(soup) : soup[i].tag = "base"
    THEN CHOOSE i \in 1..Len(soup) :
            soup[i].tag = "base" /\ \A j \in 1..(i - 1) : soup[j].tag # "base"
    ELSE 0

\* soup.find('base') ... decompose(): the first <base> element is removed
remove_base(soup) ==
    IF first_base(soup) = 0 THEN soup
    ELSE SubSeq(soup, 1, first_base(soup) - 1)
         \o SubSeq(soup, first_base(soup) + 1, Len(soup))

\* the loops of modify_content over the elements
modify_elements(soup) == [i \in 1..Len(soup) |-> modify_element(soup[i])]

\* ProxyServer.modify_content on the parsed tree, up to str(soup)
modify_content(soup) == modify_elements(remove_base(soup))

\* The formatter of str(soup) writes "&" in an attribute value as "&amp;".
RECURSIVE escape_attr(_)
escape_attr(v) ==
    IF v = None \/ v = <<>> THEN v
    ELSE (IF Head(v) = "&" THEN <<"&","a","m","p",";">> ELSE <<Head(v)>>)
         \o escape_attr(Tail(v))

\* html.parser reads "&amp;" in an attribute value back as "&"; the values
\* of the model hold no other entity.
RECURSIVE unescape_attr(_)
unescape_attr(v) ==
    IF v = None \/ v = <<>> THEN v
    ELSE IF StartsWith(v, <<"&","a","m","p",";">>)
         THEN <<"&">> \o unescape_attr(From(v, 6))
         ELSE <<Head(v)>> \o unescape_attr(Tail(v))

\* str(soup): attribute values are escaped, the text of <style> is not.
serialize(soup) ==
    [i \in 1..Len(soup) |->
        [soup[i] EXCEPT !.href   = escape_attr(@), !.src   = escape_attr(@),
                        !.action = escape_attr(@), !.style = escape_attr(@)]]

\* BeautifulSoup(content, 'html.parser')
parse_html(content) ==
    [i \in 1..Len(content) |->
        [content[i] EXCEPT !.href   = unescape_attr(@), !.src   = unescape_attr(@),
                           !.action = unescape_attr(@), !.style = unescape_attr(@)]]

---------------------------------------------------------------------------
(* The references and documents the rewriter is run on.                    *)

MaxElems  == 1     \* elements of a document
MaxPasses == 2     \* times modify_content is applied to its own output

PathP   == <<"/","p">>
PathPQ  == <<"/","p","/","q">>
PathSS  == <<"/","/","p","/","q">>
QueryXY == <<"x","=","1","&","y","=","2">>
FragT   == <<"t">>
PathPA  == <<"/","p",";","a">>

Ref(form, sch, host, path, query, frag) ==
    [form |-> form, scheme |-> sch, host |-> host, path |-> path,
     query |-> query, frag |-> frag]

\* A reference by its parts.  form: "abs" scheme://host/path, "protorel"
\* //host/path, "root" /path, "rel" a path relative to the origin.
Refs ==
    {Ref("abs", sch, h, p, q, <<>>) :
        sch \in {Http, Https}, h \in {HostA, HostB},
        p \in {<<>>, PathP, PathSS}, q \in {<<>>, QueryXY}}
    \cup {Ref("abs", Http, HostA, PathP, q, FragT) : q \in {<<>>, QueryXY}}
    \cup {Ref("protorel", <<>>, h, p, q, <<>>) :
        h \in {HostA, HostB}, p \in {<<>>, PathP}, q \in {<<>>, QueryXY}}
    \cup {Ref("root", <<>>, <<>>, p, q, f) :
        p \in {<<"/">>, PathPQ}, q \in {<<>>, QueryXY}, f \in {<<>>, FragT}}
    \cup {Ref("rel", <<>>, <<>>, p, q, <<>>) :
        p \in {Tail(PathP), Tail(PathPQ)}, q \in {<<>>, QueryXY}}
    \cup {Ref("rel", <<>>, <<>>, <<>>, QueryXY, <<>>),
          Ref("rel", <<>>, <<>>, <<>>, <<>>, FragT)}
    \cup {Ref("root", <<>>, <<>>, PathPA, q, <<>>) : q \in {<<>>, QueryXY}}
    \cup {Ref("abs", Http, h, PathPA, QueryXY, <<>>) : h \in {HostA, HostB}}

\* The reference as it is written in an attribute.
Compose(c) ==
    (CASE c.form = "abs"      -> c.scheme \o SchemeSep \o c.host
       [] c.form = "protorel" -> <<"/","/">> \o c.host
       [] OTHER               -> <<>>)
    \o c.path
    \o (IF c.query # <<>> THEN <<"?">> \o c.query ELSE <<>>)
    \o (IF c.frag # <<>> THEN <<"#">> \o c.frag ELSE <<>>)

\* Values that are no http reference, the empty value and the absent one.
OtherValues ==
    {DataPfx \o <<"x">>, JsPfx \o <<"x">>,
     <<"m","a","i","l","t","o",":","x">>, <<>>, None}

LinkValues == {Compose(c) : c \in Refs} \cup OtherValues

StyleValues ==
    {UrlOpen \o <<"/","i",")">>,
     UrlOpen \o <<"'","/","i","'",")">>,
     UrlOpen \o <<"/","i",")"," ">> \o UrlOpen \o <<"/","i",")">>,
     UrlOpen \o <<"/","/","b",".","i","o","/","i",")">>,
     UrlOpen \o Http \o SchemeSep \o HostB \o <<"/","i",")">>,
     UrlOpen \o <<"/","i","&",")">>,
     <<"x">>, <<>>}

Elem(tag, href, src, action, style, string) ==
    [tag |-> tag, href |-> href, src |-> src, action |-> action,
     style |-> style, string |-> string]

\* A sample of the values for the tags and attributes other than <a href>.
SampleValues ==
    {Compose(Ref("abs", Http, HostA, PathP, QueryXY, <<>>)),
     Compose(Ref("abs", Http, HostB, PathP, QueryXY, <<>>)),
     Compose(Ref("root", <<>>, <<>>, PathPQ, <<>>, <<>>)),
     <<>>}

\* Elements: a link-bearing attribute on a scanned tag or on one that is not
\* scanned, an inline style, a <style> block, a <base>.
Elems ==
    {Elem("a", v, None, None, None, None) : v \in LinkValues}
    \cup {Elem(t, v, None, None, None, None) : t \in {"link", "div"}, v \in SampleValues}
    \cup {Elem(t, None, v, None, None, None) : t \in {"img", "script", "iframe"}, v \in SampleValues}
    \cup {Elem("form", None, None, v, None, None) : v \in SampleValues}
    \cup {Elem("div", None, None, None, st, None) : st \in StyleValues}
    \cup {Elem("style", None, None, None, None, st) : st \in StyleValues \cup {None}}
    \cup {Elem("base", Http \o SchemeSep \o HostB \o <<"/">>, None, None, None, None)}

\* The documents: the trees html.parser makes of the fetched bodies.
Docs == UNION {[1..n -> Elems] : n \in 1..MaxElems}

\* aiohttp's session.get raises InvalidURL unless the url is http(s) with a
\* host; the handler's except clause answers with the error.
Fetchable(url) ==
    LET parsed == ParseUrl(url)
    IN  parsed.scheme \in {Http, Https} /\ parsed.netloc # <<>>

\* The urls /set-target is called with: absolute ones, one of them with a
\* path, and one with no scheme, which urlparse reads as a path.
TargetUrls ==
    {Http \o SchemeSep \o HostA,
     Https \o SchemeSep \o HostA \o <<"/","h">>,
     HostA}

\* The origins the rewriter is run under: those of the urls above that
\* upstream answers for, and one on the other host.
RewriteTargets ==
    {t \in TargetUrls \cup {Http \o SchemeSep \o HostB} : Fetchable(t)}

---------------------------------------------------------------------------
(* Idle values of each group of variables, for the specifications that do  *)
(* not run that part of the program.                                       *)

ProxyIdle ==
    /\ target_domain = None /\ scheme = None /\ base_url = None
    /\ reqs = <<>> /\ fetches = {} /\ lastTarget = None
DocIdle  == doc = <<>> /\ docIn = <<>> /\ docOut = <<>>
RegIdle  ==
    /\ file = <<>> /\ inst = <<>> /\ clock = 0
    /\ lastLearn = <<>> /\ fileInit = <<>>
MainIdle ==
    /\ urls = <<>> /\ mainpc = "idle" /\ scrapers = <<>> /\ tasks = <<>>
    /\ disk = {} /\ results = None

---------------------------------------------------------------------------
(* SpecRewrite: modify_content applied to a fetched body and then to its   *)
(* own output, under an origin that /set-target set and upstream answers   *)
(* for (the only states in which the proxy calls modify_content).          *)

InitRewrite ==
    /\ \E u \in RewriteTargets :
          /\ target_domain = set_target_fields(u).target_domain
          /\ scheme = set_target_fields(u).scheme
          /\ base_url = set_target_fields(u).base_url
          /\ lastTarget = u
    /\ reqs = <<>> /\ fetches = {}
    /\ \E d \in Docs : doc = serialize(d) /\ docIn = serialize(d)
    /\ docOut = <<>>
    /\ RegIdle /\ MainIdle

\* content = await proxy_server.modify_content(content, ""), line 174
transform ==
    /\ Len(docOut) < MaxPasses
    /\ doc' = serialize(modify_content(parse_html(doc)))
    /\ docOut' = Append(docOut, doc')
    /\ UNCHANGED <<docIn, proxyVars, regVars, mainVars>>

NextRewrite == transform

SpecRewrite == InitRewrite /\ [][NextRewrite]_vars

---------------------------------------------------------------------------
(* Claims about the rewriter, under SpecRewrite.                           *)

LinkAttrs == {"href", "src", "action"}

\* The tree modify_content scans (the first <base> gone) and the tree of
\* its output after the first pass; element i of one is element i of the
\* other.
ScannedTree == remove_base(parse_html(docIn))
FirstTree   == parse_html(docOut[1])

\* The reference resolves to the active origin.
SameOrigin(c) == c.form \in {"root", "rel"} \/ c.host = target_domain

\* The reference names another host than the active origin's.
CrossOrigin(c) ==
    c.form \in {"abs", "protorel"} /\ c.host # <<>> /\ c.host # target_domain

\* The path of the reference resolved against the origin.
ResolvedPath(c) ==
    IF c.form = "rel" /\ c.path # <<>> THEN <<"/">> \o c.path ELSE c.path

QueryPart(c) == IF c.query # <<>> THEN <<"?">> \o c.query ELSE <<>>

\* Each reference as written, computed once.
Composed == [c \in Refs |-> Compose(c)]

\* The link attributes of scanned elements that hold the reference c, as
\* <<element, attribute>>, in the tree st.
Holders(st, c) ==
    {ia \in (DOMAIN st) \X LinkAttrs :
        st[ia[1]].tag \in ScannedTags /\ st[ia[1]][ia[2]] = Composed[c]}

\* In the output tree ft, every same-origin reference of the scanned tree st
\* has become Expected(c).
SameOriginBecome(st, ft, Expected(_)) ==
    \A c \in Refs :
        SameOrigin(c) =>
            \A ia \in Holders(st, c) : ft[ia[1]][ia[2]] = Expected(c)

\* C3 as stated: routePrefix + path (+ "?" + query), with the proxy's empty
\* routePrefix.
StatedValue(c) == ResolvedPath(c) \o QueryPart(c)

\* The path without the ";parameters" of its last segment.
WithoutParams(path) ==
    IF \E i \in 1..Len(path) :
          path[i] = ";" /\ \A j \in i..Len(path) : path[j] # "/"
    THEN SubSeq(path, 1,
                (CHOOSE i \in 1..Len(path) :
                    /\ path[i] = ";" /\ \A j \in i..Len(path) : path[j] # "/"
                    /\ \A k \in 1..(i - 1) :
                          path[k] = ";" => \E j \in k..Len(path) : path[j] = "/")
                - 1)
    ELSE path

\* C3 as the code has it: "/" + the path, without the parameters of its
\* last segment and without its leading slashes.
StrippedValue(c) ==
    <<"/">> \o LStrip(WithoutParams(ResolvedPath(c)), "/") \o QueryPart(c)

\* C3 as stated: a same-origin reference on a scanned element is replaced
\* by routePrefix + path, followed by "?" + query exactly when a query is
\* present.  The code does not do this for an empty path, for a path with
\* several leading slashes or for a path with ";parameters".
C3_AsStated ==
    Len(docOut) >= 1 => SameOriginBecome(ScannedTree, FirstTree, StatedValue)

\* C3, amended: a same-origin reference on a scanned element is replaced by
\* "/" + the resolved path without the ";parameters" of its last segment
\* and without its leading slashes, followed by "?" + query exactly when a
\* query is present; the fragment is dropped.
C3_ProxyPathRewrite ==
    Len(docOut) >= 1 => SameOriginBecome(ScannedTree, FirstTree, StrippedValue)

\* C3's case: an absolute same-origin reference with a query and several
\* leading slashes in its path has been rewritten.
C3_Witness ==
    /\ Len(docOut) >= 1
    /\ \E c \in Refs :
          /\ SameOrigin(c) /\ c.form = "abs" /\ c.query # <<>> /\ c.path = PathSS
          /\ \E ia \in Holders(ScannedTree, c) :
                FirstTree[ia[1]][ia[2]] # ScannedTree[ia[1]][ia[2]]

\* In the output tree ft, every reference of the scanned tree st to another
\* host is as it was.
CrossOriginKept(st, ft) ==
    \A c \in Refs :
        CrossOrigin(c) =>
            \A ia \in Holders(st, c) : ft[ia[1]][ia[2]] = st[ia[1]][ia[2]]

\* C4: a reference to another host (absolute or protocol-relative) on a
\* scanned element is, after modify_content, character for character the
\* value before.
C4_CrossOriginUntouched ==
    Len(docOut) >= 1 => CrossOriginKept(ScannedTree, FirstTree)

\* C4's case: a document with a protocol-relative reference to another
\* host has been through modify_content.
C4_Witness ==
    /\ Len(docOut) >= 1
    /\ \E c \in Refs :
          /\ CrossOrigin(c) /\ c.form = "protorel"
          /\ Holders(ScannedTree, c) # {}

\* The elements that carry link attributes, inline styles or <style> text.
NonBase(d) == SelectSeq(d, LAMBDA e : e.tag # "base")

\* C5: for a fixed origin, modify_content applied to its own output changes
\* no link attribute, inline style or <style> block.
C5_Idempotent ==
    \A k \in 2..Len(docOut) : NonBase(docOut[k]) = NonBase(docOut[k - 1])

\* C5's case: a second pass has run on a document that the first pass
\* changed in a link attribute or in a style.
C5_Witness ==
    /\ Len(docOut) >= 2
    /\ \E i \in DOMAIN ScannedTree :
          \/ FirstTree[i].href # ScannedTree[i].href
          \/ FirstTree[i].style # ScannedTree[i].style
          \/ FirstTree[i].string # ScannedTree[i].string

---------------------------------------------------------------------------
(* SpecProxy: the FastAPI handlers of proxy_server.py.  Each handler runs  *)
(* on the event loop up to its next await; /set-target has none, a proxied *)
(* GET awaits the upstream response and then its text.                     *)

NumReqs == 2     \* GET requests the server receives

ReqIds == 1..NumReqs

\* The requests: GET /, GET /?x=1 and GET /p?x=1
RootQueries  == {<<>>, <<"x","=","1">>}
ProxyPaths   == {<<"p">>}
ProxyQueries == {<<"x","=","1">>}

\* Content-Type headers of upstream responses
TextHtml == <<"t","e","x","t","/","h","t","m","l">>
AppJson  == <<"a","p","p","l","i","c","a","t","i","o","n","/","j","s","o","n">>
AppJs    == <<"a","p","p","l","i","c","a","t","i","o","n","/",
              "j","a","v","a","s","c","r","i","p","t">>
ContentTypeHeaders ==
    {TextHtml \o <<";","c">>, AppJson, <<"i","m","a","g","e","/","p","n","g">>, <<>>}

\* The html bodies upstream answers with, as html.parser reads them
UpstreamBodies ==
    {<<Elem("a", Compose(Ref("abs", Http, HostA, PathP, QueryXY, <<>>)),
            None, None, UrlOpen \o <<"/","i",")">>, None)>>}

\* A request: where its handler is (pc), the handler's locals (path, query,
\* target_url, ctype: gone when it returns), the response and the content
\* of a text response, and what the
\* handler saw: the /set-target in force when the request came (under), the
\* base URL its target_url was built from (fetch_base), the base URL
\* modify_content read (rewrite_base).
IdleReq ==
    [pc |-> "idle", path |-> None, query |-> None, target_url |-> None,
     ctype |-> None, response |-> "none", content |-> None,
     under |-> None, fetch_base |-> None, rewrite_base |-> None]

\* The handler returns: its locals are gone
Return(req, response) ==
    [req EXCEPT !.pc = "done", !.response = response, !.path = None,
                !.query = None, !.target_url = None, !.ctype = None]

InitProxy ==
    /\ target_domain = None /\ scheme = None /\ base_url = None
    /\ reqs = [r \in ReqIds |-> IdleReq]
    /\ fetches = {}
    /\ lastTarget = None
    /\ DocIdle /\ RegIdle /\ MainIdle

\* GET /set-target?url=u: ProxyServer.set_target, then the success answer
set_target(u) ==
    /\ target_domain' = set_target_fields(u).target_domain
    /\ scheme' = set_target_fields(u).scheme
    /\ base_url' = set_target_fields(u).base_url
    /\ lastTarget' = u
    /\ UNCHANGED <<reqs, fetches, docVars, regVars, mainVars>>

\* A guard that only knows the empty string: None, the value before any
\* /set-target, passes it (C1 must not hold with it)
target_is_empty_string == target_domain = <<>>

\* `if not proxy_server.target_domain`, in root and in proxy
target_not_set == ~Truthy(target_domain)

\* target_url = f"{base_url}/{path}", with "?" and the query when there is one
build_target_url(path, query) ==
    base_url \o <<"/">> \o path
    \o (IF query # <<>> THEN <<"?">> \o query ELSE <<>>)

\* proxy(path, request) up to `async with proxy_server.session.get(...)`
proxy_handler(r, path, query) ==
    /\ reqs[r].pc = "idle"
    /\ IF target_not_set
       THEN /\ reqs' = [reqs EXCEPT ![r] =
                   Return([@ EXCEPT !.under = lastTarget], "target_not_set")]
            /\ UNCHANGED fetches
       ELSE /\ reqs' = [reqs EXCEPT ![r] =
                   [@ EXCEPT !.pc = "fetching", !.path = path,
                             !.query = query, !.under = lastTarget,
                             !.target_url = build_target_url(path, query),
                             !.fetch_base = base_url]]
            /\ fetches' = fetches \cup {r}
    /\ UNCHANGED <<target_domain, scheme, base_url, lastTarget,
                   docVars, regVars, mainVars>>

\* GET /: root makes the same test and calls proxy("", request)
root(r, query) == proxy_handler(r, <<>>, query)

\* GET /{path}
proxy(r, path, query) == proxy_handler(r, path, query)

\* content_type = response.headers.get('Content-Type', '').split(';')[0]
content_type(header) == Split(header, ";")[1]

\* the test of lines 160-162: the body is streamed as it is
is_binary(ct) ==
    /\ ~StartsWith(ct, <<"t","e","x","t","/">>)
    /\ ~StartsWith(ct, AppJs)
    /\ ~StartsWith(ct, AppJson)

\* session.get(...) resumes: an exception (also for a url aiohttp refuses),
\* or the response headers
get_response(r, raised, header) ==
    /\ reqs[r].pc = "fetching"
    /\ IF raised \/ ~Fetchable(reqs[r].target_url)
       THEN reqs' = [reqs EXCEPT ![r] = Return(@, "error")]
       ELSE IF is_binary(content_type(header))
       THEN reqs' = [reqs EXCEPT ![r] = Return(@, "stream")]
       ELSE reqs' = [reqs EXCEPT ![r] =
                [@ EXCEPT !.pc = "reading", !.ctype = content_type(header)]]
    /\ UNCHANGED <<target_domain, scheme, base_url, fetches, lastTarget,
                   docVars, regVars, mainVars>>

\* response.text() resumes: an exception, or the body, which is rewritten
\* under the server's fields of this moment when it is text/html
read_text(r, raised, body) ==
    /\ reqs[r].pc = "reading"
    /\ IF raised
       THEN reqs' = [reqs EXCEPT ![r] = Return(@, "error")]
       ELSE IF StartsWith(reqs[r].ctype, TextHtml)
       THEN reqs' = [reqs EXCEPT ![r] =
                Return([@ EXCEPT
                           !.content = serialize(modify_content(parse_html(body))),
                           !.rewrite_base = base_url], "html")]
       ELSE reqs' = [reqs EXCEPT ![r] = Return([@ EXCEPT !.content = body], "text")]
    /\ UNCHANGED <<target_domain, scheme, base_url, fetches, lastTarget,
                   docVars, regVars, mainVars>>

NextProxy ==
    \/ \E u \in TargetUrls : set_target(u)
    \/ \E r \in ReqIds, q \in RootQueries : root(r, q)
    \/ \E r \in ReqIds, p \in ProxyPaths, q \in ProxyQueries : proxy(r, p, q)
    \/ \E r \in ReqIds, raised \in BOOLEAN, h \in ContentTypeHeaders :
          get_response(r, raised, h)
    \/ \E r \in ReqIds, raised \in BOOLEAN, b \in UpstreamBodies :
          read_text(r, raised, serialize(b))

SpecProxy == InitProxy /\ [][NextProxy]_vars

---------------------------------------------------------------------------
(* Claims about the handlers, under SpecProxy.                             *)

\* C1: a GET / or GET /{path} received while no /set-target has been called
\* is answered with the 'target not set' error object and performs no
\* upstream fetch; the handler returns, and later requests are served.
C1_NoTargetError ==
    \A r \in ReqIds :
        (reqs[r].pc # "idle" /\ reqs[r].under = None) =>
            /\ reqs[r].pc = "done"
            /\ reqs[r].response = "target_not_set"
            /\ r \notin fetches

\* C1's case: a request received before any /set-target got the error, and
\* a later one was proxied and answered.
C1_Witness ==
    \E r1, r2 \in ReqIds :
        /\ reqs[r1].under = None /\ reqs[r1].response = "target_not_set"
        /\ reqs[r2].under # None /\ reqs[r2].response = "html"

\* The origin {U.scheme}://{U.host} of a url U
OriginOf(u) == ParseUrl(u).scheme \o SchemeSep \o ParseUrl(u).netloc

\* C2: after /set-target?url=U has answered success, every GET received
\* before the next /set-target is proxied, not answered with the 'target
\* not set' error, and fetches {U.scheme}://{U.host}/{path}?{query}.
C2_TargetBecomesActive ==
    \A r \in ReqIds :
        (reqs[r].pc # "idle" /\ reqs[r].under # None) =>
            /\ reqs[r].response # "target_not_set"
            /\ r \in fetches
            /\ reqs[r].pc = "fetching" =>
                  reqs[r].target_url =
                      OriginOf(reqs[r].under) \o <<"/">> \o reqs[r].path
                      \o (IF reqs[r].query # <<>>
                          THEN <<"?">> \o reqs[r].query ELSE <<>>)

\* C10: the origin an html body is rewritten under (the base URL that
\* modify_content reads) is the origin the body was fetched from.
C10_SingleOriginPerRequest ==
    \A r \in ReqIds :
        reqs[r].rewrite_base # None => reqs[r].rewrite_base = reqs[r].fetch_base

---------------------------------------------------------------------------
(* scraper.py: the URL pattern registry of WebScraper                      *)

\* str.isdigit
isdigit(s) == s # <<>> /\ \A i \in 1..Len(s) : s[i] \in Digits

\* re.match(r'\d{4}-\d{2}-\d{2}', s): the pattern at the start of s
date_match(s) ==
    /\ Len(s) >= 10
    /\ \A i \in {1, 2, 3, 4, 6, 7, 9, 10} : s[i] \in Digits
    /\ s[5] = "-" /\ s[8] = "-"

IdPart   == <<"{","i","d","}">>
DatePart == <<"{","d","a","t","e","}">>
StarPart == <<"*">>

\* create_url_pattern, lines 80-90: the part for one pair of segments
pattern_part(old, new) ==
    IF old = new THEN old
    ELSE IF isdigit(old) /\ isdigit(new) THEN IdPart
    ELSE IF date_match(old) /\ date_match(new) THEN DatePart
    ELSE StarPart

\* for old, new in zip(parts_old, parts_new): zip stops at the shorter list
RECURSIVE zip_parts(_, _)
zip_parts(parts_old, parts_new) ==
    IF parts_old = <<>> \/ parts_new = <<>> THEN <<>>
    ELSE <<pattern_part(Head(parts_old), Head(parts_new))>>
         \o zip_parts(Tail(parts_old), Tail(parts_new))

\* A pattern over the segments of the paths without their outer slashes
\* (C6 must not hold with it)
create_pattern_stripped(old_path, new_path) ==
    Join(zip_parts(Split(LStrip(old_path, "/"), "/"),
                   Split(LStrip(new_path, "/"), "/")), "/")

\* WebScraper.create_url_pattern
create_url_pattern(old_path, new_path) ==
    Join(zip_parts(Split(old_path, "/"), Split(new_path, "/")), "/")

\* A dict of patterns is the set of its items, one per key; the file is
\* absent or holds the items of the dict dumped to it
EmptyPatterns == {}
Absent        == [exists |-> FALSE, patterns |-> {}]
Stored(patterns) == [exists |-> TRUE, patterns |-> patterns]

\* The keys of a dict
Templates(patterns) == {e.key : e \in patterns}

\* WebScraper.load_url_patterns: {} when the file is absent or unreadable
load_url_patterns(raised) ==
    IF raised \/ ~file.exists THEN EmptyPatterns ELSE file.patterns

\* self.url_patterns[pattern] = {...}
set_pattern(patterns, pattern, entry) ==
    {e \in patterns : e.key # pattern} \cup {entry}

NumInsts  == 2     \* WebScraper instances
MaxLearns == 2     \* update_url_pattern calls, over all instances

InstIds == 1..NumInsts

UrlView123 == <<"/","p","o","s","t","s","/","1","2","3","/","v","i","e","w">>
UrlView456 == <<"/","p","o","s","t","s","/","4","5","6","/","v","i","e","w">>
UrlShort   == Http \o SchemeSep \o HostA \o <<"/","p","o","s","t","s","/","1","2","3">>
UrlDate1   == <<"/","d","/","2","0","2","0","-","0","1","-","0","2","/","a">>
UrlDate2   == <<"/","d","/","2","0","2","1","-","0","3","-","0","4","x","/","b">>

\* The pairs update_url_pattern is called with: the pair of two ids; a pair
\* of different lengths, one a full url; a pair of dates, the second
\* followed by more, with a last segment that differs in another way.
LearnPairs ==
    {<<UrlView123, UrlView456>>, <<UrlShort, UrlView456>>,
     <<UrlDate1, UrlDate2>>}

\* update_url_pattern, lines 54-59: the pattern of each pair
PatternOf ==
    [pr \in LearnPairs |->
        create_url_pattern(ParseUrl(pr[1]).path, ParseUrl(pr[2]).path)]

\* What url_patterns.json holds before the session: nothing, or a template
\* of an earlier one
OldPatterns ==
    set_pattern(EmptyPatterns, <<"/","o","l","d">>,
                [key |-> <<"/","o","l","d">>,
                 example_old |-> <<"/","o","l","d">>,
                 example_new |-> <<"/","o","l","d">>, last_updated |-> 0])

\* No update_url_pattern call yet
NoLearn ==
    [inst |-> 0, old |-> <<>>, new |-> <<>>, patterns_before |-> {},
     file_before |-> Absent]

\* update_url_pattern, lines 54-67: the registry with the pair's pattern
updated_patterns(patterns, old_url, new_url) ==
    set_pattern(patterns, PatternOf[<<old_url, new_url>>],
                [key |-> PatternOf[<<old_url, new_url>>],
                 example_old |-> old_url, example_new |-> new_url,
                 last_updated |-> clock])

NoInst ==
    [pc |-> "none", url_patterns |-> {}, learned |-> {}, ioerror |-> FALSE]

InitRegistry ==
    /\ file \in {Absent, Stored(OldPatterns)}
    /\ fileInit = file
    /\ inst = [i \in InstIds |-> NoInst]
    /\ clock = 1
    /\ lastLearn = NoLearn
    /\ ProxyIdle /\ DocIdle /\ MainIdle

\* WebScraper.__init__: self.url_patterns = self.load_url_patterns()
construct(i, raised) ==
    /\ inst[i].pc = "none"
    /\ inst' = [inst EXCEPT ![i] =
          [@ EXCEPT !.pc = "ready", !.url_patterns = load_url_patterns(raised),
                    !.ioerror = raised]]
    /\ UNCHANGED <<file, clock, lastLearn, fileInit, proxyVars, docVars, mainVars>>

\* WebScraper.save_url_patterns: the whole dict is written over the file;
\* an exception (raised) is logged and the file is as it was
save_url_patterns(patterns, raised) ==
    IF raised THEN file ELSE Stored(patterns)

\* WebScraper.update_url_pattern(old_url, new_url), with its save
update_url_pattern(i, old_url, new_url, raised) ==
    /\ inst[i].pc = "ready"
    /\ clock <= MaxLearns
    /\ inst' = [inst EXCEPT ![i] =
          [@ EXCEPT !.url_patterns = updated_patterns(@, old_url, new_url),
                    !.learned = @ \cup {PatternOf[<<old_url, new_url>>]},
                    !.ioerror = @ \/ raised]]
    /\ file' = save_url_patterns(inst'[i].url_patterns, raised)
    /\ clock' = clock + 1
    /\ lastLearn' = [inst |-> i, old |-> old_url, new |-> new_url,
                     patterns_before |-> inst[i].url_patterns,
                     file_before |-> file]
    /\ UNCHANGED <<fileInit, proxyVars, docVars, mainVars>>

\* The session of the instance ends (main returns, the process exits)
finish(i) ==
    /\ inst[i].pc = "ready"
    /\ inst' = [inst EXCEPT ![i] = [@ EXCEPT !.pc = "closed"]]
    /\ UNCHANGED <<file, clock, lastLearn, fileInit, proxyVars, docVars, mainVars>>

NextRegistry ==
    \/ \E i \in InstIds, raised \in BOOLEAN : construct(i, raised)
    \/ \E i \in InstIds, pr \in LearnPairs, raised \in BOOLEAN :
          update_url_pattern(i, pr[1], pr[2], raised)
    \/ \E i \in InstIds : finish(i)

SpecRegistry == InitRegistry /\ [][NextRegistry]_vars

---------------------------------------------------------------------------
(* Claims about the pattern registry, under SpecRegistry.                  *)

\* The segments of the path of a url
Segments(url) == Split(ParseUrl(url).path, "/")

Shorter(a, b) == IF Len(a) <= Len(b) THEN Len(a) ELSE Len(b)

\* The template of the claim's rule, position by position, over the
\* positions both paths have: the literal of an equal pair, {id} for two
\* numbers, {date} for two segments that begin with NNNN-NN-NN, * otherwise.
RuleTemplate(a, b) ==
    Join([k \in 1..Shorter(a, b) |->
            CASE a[k] = b[k] -> a[k]
              [] a[k] # b[k] /\ isdigit(a[k]) /\ isdigit(b[k]) -> IdPart
              [] a[k] # b[k] /\ ~(isdigit(a[k]) /\ isdigit(b[k]))
                 /\ date_match(a[k]) /\ date_match(b[k]) -> DatePart
              [] OTHER -> StarPart], "/")

\* The template of the rule for each pair
RuleOf == [pr \in LearnPairs |-> RuleTemplate(Segments(pr[1]), Segments(pr[2]))]

\* The pair of the last update_url_pattern call
LastPair == <<lastLearn.old, lastLearn.new>>

\* The pairs whose paths have different numbers of segments
Mismatched == {pr \in LearnPairs : Len(Segments(pr[1])) # Len(Segments(pr[2]))}

\* The registry of the instance of the last update_url_pattern call
LastPatterns == inst[lastLearn.inst].url_patterns

\* C6 as stated: learn("/posts/123/view", "/posts/456/view") yields the
\* template key posts/{id}/view in the registry.
C6_AsStated ==
    (lastLearn # NoLearn /\ lastLearn.old = UrlView123 /\ lastLearn.new = UrlView456)
        => <<"p","o","s","t","s","/","{","i","d","}","/","v","i","e","w">> \in Templates(LastPatterns)

\* C6, amended: update_url_pattern(old, new) registers, with the pair as
\* its example, the template of the positional rule over the segments of
\* path.split("/"), the empty first segment of a path that starts with "/"
\* included; learn("/posts/123/view", "/posts/456/view") yields the key
\* /posts/{id}/view.
C6_TemplateRegistered ==
    lastLearn # NoLearn =>
        /\ RuleOf[LastPair] \in Templates(LastPatterns)
        /\ \A e \in LastPatterns :
              e.key = RuleOf[LastPair]
                 => e.example_old = lastLearn.old /\ e.example_new = lastLearn.new
        /\ (lastLearn.old = UrlView123 /\ lastLearn.new = UrlView456) =>
              <<"/","p","o","s","t","s","/","{","i","d","}","/","v","i","e","w">> \in Templates(LastPatterns)

\* C6's case: the pair of the example has been learned, and a pair of
\* dates, and each has its template.
C6_Witness ==
    /\ lastLearn # NoLearn
    /\ lastLearn.old = UrlDate1 /\ lastLearn.new = UrlDate2
    /\ <<"/","d","/","{","d","a","t","e","}","/","*">> \in Templates(LastPatterns)
    /\ <<"/","p","o","s","t","s","/","{","i","d","}","/","v","i","e","w">> \in Templates(LastPatterns)

\* C7: when the two paths have different numbers of segments the pair is
\* skipped: the registry in memory is as before and the file is not
\* rewritten.
C7_MismatchSkipped ==
    (lastLearn # NoLearn /\ LastPair \in Mismatched)
        => /\ LastPatterns = lastLearn.patterns_before
           /\ file = lastLearn.file_before

\* C8: once every instance has finished, with no read or write of the file
\* having failed, the file holds every template any instance learned and
\* every template it held beforehand.
C8_NoLostUpdate ==
    (\A i \in InstIds : inst[i].pc = "closed" /\ ~inst[i].ioerror)
        => /\ Templates(fileInit.patterns) \subseteq Templates(file.patterns)
           /\ \A i \in InstIds : inst[i].learned \subseteq Templates(file.patterns)

---------------------------------------------------------------------------
(* scraper.py: main, one WebScraper and one save_page task per url         *)

NumUrls == 2       \* the urls on the command line, at most

\* Two pages of one site, the second a query of the first
PageUrls ==
    {Http \o SchemeSep \o HostA \o PathP,
     Http \o SchemeSep \o HostA \o PathP \o <<"?">> \o QueryXY}

\* driver.title: none, or the title the pages of the site share
Titles == {<<>>, <<"a"," ","i","o">>}

Pages    == <<"p","a","g","e","s">>
Index    == <<"i","n","d","e","x">>
HtmlExt  == <<".","h","t","m","l">>
JsonExt  == <<".","j","s","o","n">>

\* OUTPUT_DIR = sys.argv[-1] if len(sys.argv) > 2 else 'pages'
OUTPUT_DIR == IF Len(urls) + 1 > 2 THEN urls[Len(urls)] ELSE Pages

\* re.sub(pattern, '_', s) for a pattern [^...]: the characters of `kept`
\* stay, every other one becomes "_"
Sub(s, kept) == [k \in 1..Len(s) |-> IF s[k] \in kept THEN s[k] ELSE "_"]

\* [a-zA-Z0-9], for strings with no upper-case letter
AlphaNum == Letters \cup Digits

\* [\w\-_\.]
NameChars == AlphaNum \cup {"_", "-", "."}

\* s[:50]
NameMax == 50
Truncate(s) == IF Len(s) > NameMax THEN SubSeq(s, 1, NameMax) ELSE s

\* _get_site_name, lines 125-127: the first label of the netloc, "www."
\* taken out
domain(url) == Head(Split(Replace(ParseUrl(url).netloc, <<"w","w","w",".">>, <<>>), "."))

\* WebScraper._get_site_name, with the title the driver gives
get_site_name(url, title) ==
    IF Truthy(title) THEN Truncate(Sub(title, NameChars))
    ELSE Truncate(Sub(domain(url), NameChars))

\* save_page, line 159
filename_base(url) ==
    Sub(IF ParseUrl(url).path # <<>> THEN ParseUrl(url).path ELSE Index, AlphaNum)

\* str(n) of a natural number
DigitChars == <<"0","1","2","3","4","5","6","7","8","9">>
RECURSIVE Str(_)
Str(n) ==
    IF n < 10 THEN <<DigitChars[n + 1]>>
    ELSE Str(n \div 10) \o <<DigitChars[(n % 10) + 1]>>

\* save_page, lines 155-163: os.path.join(output_dir, filename), with the
\* title of the page and the second `now` of the clock
filepath(url, title, now) ==
    OUTPUT_DIR \o <<"/">> \o get_site_name(url, title) \o <<"_">>
    \o filename_base(url) \o <<"_">> \o Str(now) \o HtmlExt

\* save_page, line 178: f"{filepath}.json"
metadata_path(path) == path \o JsonExt

\* open(path, 'w') and a write: the file holds the new content only
write_file(files, path, content) ==
    {f \in files : f.path # path} \cup {[path |-> path, content |-> content]}

\* What main returns: None, or the list of the results of gather
NoResults == [none |-> TRUE, values |-> <<>>]

InitMain ==
    /\ urls \in UNION {[1..n -> PageUrls] : n \in 1..NumUrls}
    /\ mainpc = "create"
    /\ scrapers = <<>>
    /\ tasks = <<>>
    /\ disk = {}
    /\ results = NoResults
    /\ ProxyIdle /\ DocIdle /\ RegIdle

\* WebScraper.__init__ with _setup_selenium_driver: the driver, or None
\* when setting it up raised
new_scraper(raised) ==
    [driver |-> IF raised THEN "None" ELSE "open", closed |-> FALSE]

\* asyncio.create_task(scraper.save_page(url)): not started yet
new_task == [pc |-> "created", result |-> None, failed |-> FALSE]

\* main, lines 233-237: one pass of the for loop
create_scraper(raised) ==
    /\ mainpc = "create"
    /\ scrapers' = Append(scrapers, new_scraper(raised))
    /\ tasks' = Append(tasks, new_task)
    /\ mainpc' = IF Len(scrapers') = Len(urls) THEN "gather" ELSE "create"
    /\ UNCHANGED <<urls, disk, results, proxyVars, docVars, regVars>>

\* save_page, lines 150-152: no content, return None
no_content(task) == [task EXCEPT !.pc = "done", !.result = None, !.failed = TRUE]

\* save_page, lines 184-186: except Exception, return None
save_failed(task) == [task EXCEPT !.pc = "done", !.result = None, !.failed = TRUE]

\* save_page, line 182: return filepath
saved(task, path) == [task EXCEPT !.pc = "done", !.result = path]

\* scrape_page, line 199: suspended in asyncio.sleep
sleeping(task) == [task EXCEPT !.pc = "sleeping"]

StartFates  == {"makedirs", "get", "ok"}
ResumeFates == {"page_source", "empty", "write", "metadata", "ok"}

\* save_page up to the await of scrape_page: os.makedirs raises; there is
\* no driver or driver.get raises, and scrape_page returns ""; or the task
\* goes to sleep
started(task, driver, fate) ==
    IF fate = "makedirs" THEN save_failed(task)
    ELSE IF driver = "None" \/ fate = "get" THEN no_content(task)
    ELSE sleeping(task)

save_page_start(i, fate) ==
    /\ mainpc = "gather"
    /\ i \in DOMAIN tasks
    /\ tasks[i].pc = "created"
    /\ tasks' = [tasks EXCEPT ![i] = started(@, scrapers[i].driver, fate)]
    /\ UNCHANGED <<urls, mainpc, scrapers, disk, results, proxyVars, docVars, regVars>>

\* save_page after the sleep: page_source or the parse raises and
\* scrape_page returns "", or the page is empty; the html file cannot be
\* written; the metadata file cannot be written; or both are written
resumed(task, path, fate) ==
    IF fate \in {"page_source", "empty"} THEN no_content(task)
    ELSE IF fate \in {"write", "metadata"} THEN save_failed(task)
    ELSE saved(task, path)

\* The files after save_page, lines 174-179: the page of the url, then its
\* metadata
written(files, url, path, fate) ==
    IF fate = "metadata" THEN write_file(files, path, url)
    ELSE IF fate = "ok"
    THEN write_file(write_file(files, path, url), metadata_path(path), url)
    ELSE files

\* The rest of save_page for task i; the second of the clock has passed
\* since the last one was read (later) or not
save_page_resume(i, fate, title, later) ==
    /\ i \in DOMAIN tasks
    /\ tasks[i].pc = "sleeping"
    /\ clock' = IF later THEN clock + 1 ELSE clock
    /\ tasks' = [tasks EXCEPT ![i] = resumed(@, filepath(urls[i], title, clock'), fate)]
    /\ disk' = written(disk, urls[i], filepath(urls[i], title, clock'), fate)
    /\ UNCHANGED <<urls, mainpc, scrapers, results, proxyVars, docVars,
                   file, inst, lastLearn, fileInit>>

\* main, lines 240-246: gather returns the results in the order of the
\* urls once every task is done, or raises the exception of a task and
\* main returns None
gathered ==
    IF \E i \in DOMAIN tasks : tasks[i].pc = "raised" THEN NoResults
    ELSE [none |-> FALSE, values |-> [i \in DOMAIN tasks |-> tasks[i].result]]

gather ==
    /\ mainpc = "gather"
    /\ \/ \A i \in DOMAIN tasks : tasks[i].pc = "done"
       \/ \E i \in DOMAIN tasks : tasks[i].pc = "raised"
    /\ results' = gathered
    /\ mainpc' = "finally"
    /\ UNCHANGED <<urls, scrapers, tasks, disk, proxyVars, docVars, regVars>>

\* The scraper the loop of the finally block is at
next_to_close == CHOOSE i \in DOMAIN scrapers :
    ~scrapers[i].closed /\ \A j \in 1..(i - 1) : scrapers[j].closed

\* WebScraper.close_driver: if self.driver: self.driver.quit()
closed_scraper(scraper) ==
    [driver |-> IF scraper.driver = "open" THEN "quit" ELSE scraper.driver,
     closed |-> TRUE]

\* main, lines 248-251: one pass of the loop of the finally block; main
\* returns after the last
close_driver ==
    /\ mainpc = "finally"
    /\ scrapers' = [scrapers EXCEPT ![next_to_close] = closed_scraper(@)]
    /\ mainpc' = IF \A i \in DOMAIN scrapers : scrapers'[i].closed
                 THEN "returned" ELSE "finally"
    /\ UNCHANGED <<urls, tasks, disk, results, proxyVars, docVars, regVars>>

NextMain ==
    \/ \E raised \in BOOLEAN : create_scraper(raised)
    \/ \E i \in 1..NumUrls, fate \in StartFates : save_page_start(i, fate)
    \/ \E i \in 1..NumUrls, fate \in ResumeFates, title \in Titles, later \in BOOLEAN :
          save_page_resume(i, fate, title, later)
    \/ gather
    \/ close_driver

SpecMain == InitMain /\ [][NextMain]_vars

---------------------------------------------------------------------------
(* Claims about main, under SpecMain.                                      *)

\* The page of url i is on disk in the file main returned for it, and its
\* metadata beside it
Persisted(i) ==
    /\ [path |-> results.values[i], content |-> urls[i]] \in disk
    /\ [path |-> metadata_path(results.values[i]), content |-> urls[i]] \in disk

\* main has returned one result per url, None for the failed ones and for
\* the others the path of a file that holds the page, and no driver is open
SessionResults ==
    /\ ~results.none
    /\ Len(results.values) = Len(urls)
    /\ \A i \in DOMAIN urls :
          IF tasks[i].failed THEN results.values[i] = None
          ELSE results.values[i] # None /\ Persisted(i)
    /\ \A i \in DOMAIN scrapers : scrapers[i].driver # "open"

\* C9: whatever urls fail to be fetched, parsed or saved, when main returns
\* it returns one result per url, None for each failed url and its file
\* path for each other url, which is persisted, with the driver of every
\* scraper closed.
C9_SessionSurvivesFailures == mainpc = "returned" => SessionResults

\* The same without the demand that the saved pages are still on disk:
\* this much the code does.
C9_ResultsPerUrl ==
    mainpc = "returned" =>
        /\ ~results.none
        /\ Len(results.values) = Len(urls)
        /\ \A i \in DOMAIN urls : tasks[i].failed <=> results.values[i] = None
        /\ \A i \in DOMAIN scrapers : scrapers[i].driver # "open"

=============================================================================
